---- MODULE Spec2Model ----
(***************************************************************************)
(* Holista dashboards: the remote-file loader (ftp_data_loader.py), the    *)
(* dataset loads of the dashboard pages and the aggregation pipelines of   *)
(* the overdue, sales-order and stock-ageing pages.                        *)
(*                                                                         *)
(* Part 1 (specification Spec) is the loader as a state machine: the       *)
(* secrets, the FTP server's files, the two cache levels of                *)
(* st.cache_data (bytes by remote path, dataset by load function) and the  *)
(* candidate loop of load_stock_ageing_data.                               *)
(***************************************************************************)
EXTENDS Integers, Sequences, FiniteSets, TLC

(***************************************************************************)
(* Remote paths.  A path string is kept as the pieces the code looks at:   *)
(* segs are the "/"-separated pieces before the last one (so "/" occurs in *)
(* the path iff segs is non-empty, and rsplit("/", 1)[0] is segs), stem    *)
(* and ext are the last piece around its final dot.                        *)
(***************************************************************************)
MkPath(segs, stem, ext) == [segs |-> segs, stem |-> stem, ext |-> ext]

EmptyPath == MkPath(<<>>, "", "")

DataDir == <<"", "data">>

InventoryPath == MkPath(DataDir, "inventory", "xlsx")

AgeingCsvPath == MkPath(<<>>, "ageing", "CSV")

StockAgeingPath == MkPath(DataDir, "stock_ageing", "xlsx")

OverduePath == MkPath(DataDir, "overdue", "xlsx")

\* str.lower() on the extensions that occur
Lower(ext) ==
    CASE ext = "CSV" -> "csv"
      [] ext = "Csv" -> "csv"
      [] OTHER -> ext

HasSlash(path) == path.segs # <<>>

\* f"{base_dir}/<stem>.<ext>" with base_dir = path.rsplit("/", 1)[0]
InBaseDir(path, stem, ext) == MkPath(path.segs, stem, ext)

\* the five well-known file names tried in the configured path's directory
WellKnownNames ==
    << <<"Inventory_Ageing_Report", "xlsx">>,
       <<"inventory_ageing_report", "csv">>,
       <<"stock agenging", "xlsx">>,
       <<"stock ageing", "xlsx">>,
       <<"stock_ageing", "xlsx">> >>

(***************************************************************************)
(* Exceptions are a class and a message; the class decides what an except  *)
(* clause catches.                                                         *)
(***************************************************************************)
Exc(cls, msg) == [cls |-> cls, msg |-> msg]

NoExc == Exc("none", "")

MissingSection == Exc("KeyError", "Missing [ftp] section")

NotConfigured == Exc("ValueError", "FTP host/user/password is not fully configured")

PathIsEmpty == Exc("ValueError", "FTP remote path is empty")

ExcelFormatError == Exc("ValueError", "Excel file format cannot be determined")

CsvDecodeError == Exc("ValueError", "utf-8 codec cannot decode")

PermError == Exc("error_perm", "550 file not found")

ConnectError == Exc("OSError", "connection refused")

ConnectionLost == Exc("EOFError", "connection closed")

\* what one FTP session can run into on the transport level
NetOutcomes == {"up", "refused", "lost"}

\* the classes raised for connection-level failures
TransportClasses == {"OSError", "EOFError"}

(***************************************************************************)
(* File contents on the server, and the datasets they decode to.           *)
(***************************************************************************)
Absent == "absent"

None == "none"

Contents == {"xlsx#1", "xlsx#2", "csv#1"}

IsWorkbook(bytes) == bytes \in {"xlsx#1", "xlsx#2"}

IsUtf8Text(bytes) == bytes = "csv#1"

Table(bytes) == <<"table", bytes>>

(***************************************************************************)
(* The secrets: the [ftp] section, the three credentials ("" for a value   *)
(* that is absent or empty) and the remote path of each dataset key.       *)
(***************************************************************************)
Keys == {"inventory", "stock_ageing", "inventory_ageing", "overdue", "overdue_cr"}

CredChoices ==
    { [host |-> "h", user |-> "u", password |-> "p"],
      [host |-> "",  user |-> "u", password |-> "p"],
      [host |-> "h", user |-> "u", password |-> ""] }

PathChoices ==
    { [inventory |-> InventoryPath, stock_ageing |-> StockAgeingPath,
       inventory_ageing |-> EmptyPath, overdue |-> OverduePath, overdue_cr |-> OverduePath],
      [inventory |-> InventoryPath, stock_ageing |-> InventoryPath,
       inventory_ageing |-> AgeingCsvPath, overdue |-> OverduePath, overdue_cr |-> EmptyPath],
      [inventory |-> AgeingCsvPath, stock_ageing |-> EmptyPath,
       inventory_ageing |-> InventoryPath, overdue |-> InventoryPath, overdue_cr |-> OverduePath],
      [inventory |-> EmptyPath, stock_ageing |-> EmptyPath,
       inventory_ageing |-> EmptyPath, overdue |-> EmptyPath, overdue_cr |-> OverduePath] }

Secrets ==
    { [section |-> TRUE, cred |-> c, paths |-> p] : c \in CredChoices, p \in PathChoices }
    \cup { [section |-> FALSE, cred |-> [host |-> "", user |-> "", password |-> ""],
            paths |-> [k \in Keys |-> EmptyPath]] }

\* every path a load can ask for under some configuration
Paths ==
    LET configured == UNION { {p[k] : k \in Keys} : p \in PathChoices }
    IN  (configured
         \cup { InBaseDir(q, WellKnownNames[i][1], WellKnownNames[i][2]) :
                    q \in {c \in configured : HasSlash(c)},
                    i \in 1..Len(WellKnownNames) })
        \ {EmptyPath}

\* the files the server holds when the process starts
ServerLayouts ==
    { [p \in Paths |-> Absent] }
    \cup { [p \in Paths |-> IF p = q THEN c ELSE Absent] :
              q \in {InventoryPath, StockAgeingPath, AgeingCsvPath, OverduePath},
              c \in Contents }
    \cup { [p \in Paths |-> IF p = InventoryPath THEN "csv#1"
                            ELSE IF p = InBaseDir(InventoryPath, "stock ageing", "xlsx")
                                 THEN "xlsx#1" ELSE Absent] }
    \cup { [p \in Paths |-> IF p = InventoryPath THEN "csv#1"
                            ELSE IF p = AgeingCsvPath THEN "xlsx#2" ELSE Absent] }

(***************************************************************************)
(* ftp_data_loader.py as operators.  Each returns what the call returns or *)
(* raises, whether it called _download_bytes, whether that call opened an  *)
(* FTP session, and the bytes cache after the call.                        *)
(***************************************************************************)
CredsComplete(s) == s.cred.host # "" /\ s.cred.user # "" /\ s.cred.password # ""

\* a cache that keeps an entry for every path when a fetch has failed
Raised_Kept(exc, session, cache) ==
    [val |-> None, exc |-> exc, session |-> session,
     cache |-> [p \in DOMAIN cache |-> "csv#1"]]

Raised(exc, session, cache) ==
    [val |-> None, exc |-> exc, session |-> session, cache |-> cache]

\* is a call of _download_bytes(path) answered by st.cache_data
CacheHit(path, cache) == cache[path] # None

\* a cache that keeps nothing
CacheStore_Dropped(path, bytes, cache) == cache

\* what st.cache_data keeps after _download_bytes(path) has returned bytes
CacheStore(path, bytes, cache) == [cache EXCEPT ![path] = bytes]

\* _download_bytes(remote_path) under @st.cache_data
DownloadBytes(path, s, srv, cache, net) ==
    IF CacheHit(path, cache)
    THEN [val |-> cache[path], exc |-> NoExc, session |-> FALSE, cache |-> cache]
    ELSE IF ~s.section THEN Raised(MissingSection, FALSE, cache)
    ELSE IF ~CredsComplete(s) THEN Raised(NotConfigured, FALSE, cache)
    ELSE IF net = "refused" THEN Raised(ConnectError, TRUE, cache)
    ELSE IF net = "lost" THEN Raised(ConnectionLost, TRUE, cache)
    ELSE IF srv[path] = Absent THEN Raised(PermError, TRUE, cache)
    ELSE [val |-> srv[path], exc |-> NoExc, session |-> TRUE,
          cache |-> CacheStore(path, srv[path], cache)]

NotCalled(exc, cache) ==
    [df |-> None, exc |-> exc, called |-> FALSE, session |-> FALSE,
     val |-> None, cache |-> cache, decoder |-> None]

Decoded(d, readable, decodeError) ==
    [df |-> IF d.exc = NoExc /\ readable THEN Table(d.val) ELSE None,
     exc |-> IF d.exc # NoExc THEN d.exc ELSE IF readable THEN NoExc ELSE decodeError,
     called |-> TRUE, session |-> d.session, val |-> d.val, cache |-> d.cache,
     decoder |-> IF d.exc # NoExc THEN None
                 ELSE IF decodeError = CsvDecodeError THEN "pd.read_csv" ELSE "pd.read_excel"]

\* read_excel_from_ftp(remote_path)
ReadExcel(path, s, srv, cache, net) ==
    IF path = EmptyPath THEN NotCalled(PathIsEmpty, cache)
    ELSE LET d == DownloadBytes(path, s, srv, cache, net)
         IN  Decoded(d, d.exc = NoExc /\ IsWorkbook(d.val), ExcelFormatError)

\* read_csv_from_ftp(remote_path)
ReadCsv(path, s, srv, cache, net) ==
    IF path = EmptyPath THEN NotCalled(PathIsEmpty, cache)
    ELSE LET d == DownloadBytes(path, s, srv, cache, net)
         IN  Decoded(d, d.exc = NoExc /\ IsUtf8Text(d.val), CsvDecodeError)

\* an endswith(".csv") on the path as it is spelled
EndsWithCsv_AsSpelled(path) == path.ext = "csv"

\* remote_path.lower().endswith(".csv")
EndsWithCsv(path) == Lower(path.ext) = "csv"

\* read_tabular_from_ftp(remote_path)
ReadTabular(path, s, srv, cache, net) ==
    IF EndsWithCsv(path)
    THEN ReadCsv(path, s, srv, cache, net)
    ELSE ReadExcel(path, s, srv, cache, net)

(***************************************************************************)
(* load_stock_ageing_data: the candidate list and the except clause.       *)
(***************************************************************************)
InSeq(x, seq) == \E i \in 1..Len(seq) : seq[i] = x

\* add_candidate without the "not in candidate_paths" test
AddCandidate_NoDedup(cands, path) ==
    IF path # EmptyPath THEN Append(cands, path) ELSE cands

\* add_candidate(path)
AddCandidate(cands, path) ==
    IF path # EmptyPath /\ ~InSeq(path, cands) THEN Append(cands, path) ELSE cands

RECURSIVE AddWellKnown(_, _, _)
AddWellKnown(cands, configured, i) ==
    IF i > Len(WellKnownNames) THEN cands
    ELSE AddWellKnown(
             AddCandidate(cands, InBaseDir(configured, WellKnownNames[i][1], WellKnownNames[i][2])),
             configured, i + 1)

\* candidate_paths as built before the loop
CandidatePaths(s) ==
    LET configured == s.paths["inventory"]
        c1 == AddCandidate(<<>>, configured)
        c2 == AddCandidate(c1, s.paths["stock_ageing"])
        c3 == AddCandidate(c2, s.paths["inventory_ageing"])
    IN  IF configured # EmptyPath /\ HasSlash(configured)
        THEN AddWellKnown(c3, configured, 1)
        ELSE c3

\* an except clause for missing files only
CaughtInLoop_MissingOnly(exc) == exc.cls \in {"FileNotFoundError", "error_perm"}

\* except (FileNotFoundError, error_perm, OSError, ValueError)
CaughtInLoop(exc) == exc.cls \in {"FileNotFoundError", "error_perm", "OSError", "ValueError"}

\* the key each single-path load reads
LoadKey(load) ==
    CASE load = "load_overdue_payment_data" -> "overdue"
      [] load = "load_overdue_creditor_data" -> "overdue_cr"

SimpleLoads == {"load_overdue_payment_data", "load_overdue_creditor_data"}

AgeingLoad == "load_stock_ageing_data"

(***************************************************************************)
(* State.                                                                  *)
(***************************************************************************)
VARIABLES
    secrets,          \* st.secrets, fixed for the process
    remote,           \* the server: content of each path, or Absent
    dl_cache,         \* st.cache_data of _download_bytes: bytes by path
    load_cache,       \* st.cache_data of the load functions: dataset by function
    pc,               \* "idle", or "loop" inside load_stock_ageing_data
    candidate_paths,  \* the running load's candidate list
    k,                \* index of the next candidate
    tried,            \* paths handed to read_tabular_from_ftp by the running load
    last_error,       \* last_error of the running load
    raised,           \* what the running load's latest read_tabular_from_ftp raised
    transportFailed,  \* a connection-level failure happened in the running load
    result,           \* what the last finished load returned or raised
    lastCall,         \* the last call of _download_bytes
    firstOk,          \* per path, the bytes its first successful fetch returned
    df,               \* the decoded dataset a page works on
    today,            \* the reference date of a page run, as a day number
    sort_ties,        \* how this build's default sort leaves rows with equal keys
    view              \* what the page run computed and showed

loaderVars == <<secrets, remote, dl_cache, load_cache, pc, candidate_paths, k, tried,
                last_error, raised, transportFailed, result, lastCall, firstOk>>

dataVars == <<df, today, sort_ties, view>>

vars == <<loaderVars, dataVars>>

NoCall ==
    [path |-> EmptyPath, known |-> None, srv |-> Absent, val |-> None,
     exc |-> NoExc, session |-> FALSE]

NoResult ==
    [load |-> None, ok |-> FALSE, df |-> None, exc |-> NoExc, listed |-> <<>>,
     last |-> NoExc, fromCache |-> FALSE]

Returned(load, table, cached) ==
    [load |-> load, ok |-> TRUE, df |-> table, exc |-> NoExc, listed |-> <<>>,
     last |-> NoExc, fromCache |-> cached]

Failed(load, exc) ==
    [load |-> load, ok |-> FALSE, df |-> None, exc |-> exc, listed |-> <<>>,
     last |-> NoExc, fromCache |-> FALSE]

\* raise FileNotFoundError("... Tried paths: ... Last error: ...")
NotFoundOnFtp(cands, last) ==
    [load |-> AgeingLoad, ok |-> FALSE, df |-> None,
     exc |-> Exc("FileNotFoundError", "Stock ageing file was not found on FTP"),
     listed |-> SelectSeq(cands, LAMBDA p : p # EmptyPath),
     last |-> last, fromCache |-> FALSE]

\* no page has run on a dataset
NoData == [sheet |-> None, cols |-> {}, rows |-> <<>>]

NoView == [page |-> None]

\* DataFrame.sort_values(kind='quicksort') is not a stable sort: where it leaves
\* rows with equal keys depends on the build, not on the run
TieOrders == {"row order", "reverse row order"}

DataAtRest == df = NoData /\ today = 0 /\ sort_ties = "row order" /\ view = NoView

Init ==
    /\ DataAtRest
    /\ secrets \in Secrets
    /\ remote \in ServerLayouts
    /\ dl_cache = [p \in Paths |-> None]
    /\ load_cache = [l \in SimpleLoads \cup {AgeingLoad} |-> None]
    /\ pc = "idle"
    /\ candidate_paths = <<>>
    /\ k = 1
    /\ tried = <<>>
    /\ last_error = NoExc
    /\ raised = NoExc
    /\ transportFailed = FALSE
    /\ result = NoResult
    /\ lastCall = NoCall
    /\ firstOk = [p \in Paths |-> None]

\* the page each load belongs to
PageOf(load) ==
    CASE load = "load_overdue_payment_data" -> "Overdue Payment"
      [] load = "load_overdue_creditor_data" -> "Overdue Creditor"
      [] load = "load_stock_ageing_data" -> "Stock Ageing"

\* a Stock Ageing page whose except clause lets the failure through to the body
Elements_Unguarded(r) ==
    IF r.ok THEN <<"title", "kpi", "chart", "table">>
    ELSE <<"title", "exception", "kpi", "chart", "table">>

\* what a page view puts on the page, in order.  The Stock Ageing page catches
\* the failure of its load and shows st.error, st.code(str(exc)) and st.info
\* under its title; the dashboards show their title, call the load, and an
\* exception leaves the script: Streamlit shows it and ends the run.
Elements(r) ==
    IF r.ok THEN <<"title", "kpi", "chart", "table">>
    ELSE IF r.load = AgeingLoad THEN <<"title", "error", "code", "info">>
    ELSE <<"title", "exception">>

\* the page after the load has finished with r; `before` is the page as it was
PageShown(r, before) ==
    IF r = NoResult THEN before
    ELSE [page |-> PageOf(r.load),
          status |-> IF r.ok THEN "rendered" ELSE "error",
          shown |-> Elements(r),
          diagnostic |-> IF r.ok THEN NoExc ELSE r.exc,
          previous |-> IF before.page = None THEN None ELSE before.status,
          previous_page |-> before.page]

\* the record of a call of _download_bytes made inside read r of path
Recorded(path, r) ==
    [path |-> path, known |-> firstOk[path], srv |-> remote[path], val |-> r.val,
     exc |-> IF r.val = None THEN r.exc ELSE NoExc, session |-> r.session]

NoteCall(path, r) ==
    /\ dl_cache' = r.cache
    /\ lastCall' = IF r.called THEN Recorded(path, r) ELSE lastCall
    /\ firstOk' = IF r.called /\ r.val # None /\ firstOk[path] = None
                  THEN [firstOk EXCEPT ![path] = r.val]
                  ELSE firstOk

\* the server's operator replaces the content of a file
ServerReplace(p, c) ==
    /\ remote[p] \notin {Absent, c}
    /\ remote' = [remote EXCEPT ![p] = c]
    /\ UNCHANGED <<secrets, dl_cache, load_cache, pc, candidate_paths, k, tried,
                   last_error, raised, transportFailed, result, lastCall, firstOk>>
    /\ UNCHANGED dataVars

\* a page view calls load_overdue_payment_data() or load_overdue_creditor_data()
SimpleLoad(load, net) ==
    /\ pc = "idle"
    /\ IF load_cache[load] # None
       THEN /\ result' = Returned(load, load_cache[load], TRUE)
            /\ UNCHANGED <<dl_cache, load_cache, lastCall, firstOk>>
       ELSE IF ~secrets.section
       THEN /\ result' = Failed(load, MissingSection)
            /\ UNCHANGED <<dl_cache, load_cache, lastCall, firstOk>>
       ELSE LET path == secrets.paths[LoadKey(load)]
                r == ReadExcel(path, secrets, remote, dl_cache, net)
            IN  /\ NoteCall(path, r)
                /\ IF r.exc = NoExc
                   THEN /\ result' = Returned(load, r.df, FALSE)
                        /\ load_cache' = [load_cache EXCEPT ![load] = r.df]
                   ELSE /\ result' = Failed(load, r.exc)
                        /\ UNCHANGED load_cache
    /\ transportFailed' = FALSE
    /\ view' = PageShown(result', view)
    /\ UNCHANGED <<secrets, remote, pc, candidate_paths, k, tried, last_error, raised>>
    /\ UNCHANGED <<df, today, sort_ties>>

\* the Stock Ageing page calls load_stock_ageing_data(): up to the loop
AgeingStart ==
    /\ pc = "idle"
    /\ transportFailed' = FALSE
    /\ tried' = <<>>
    /\ last_error' = NoExc
    /\ raised' = NoExc
    /\ k' = 1
    /\ IF load_cache[AgeingLoad] # None
       THEN /\ result' = Returned(AgeingLoad, load_cache[AgeingLoad], TRUE)
            /\ UNCHANGED <<pc, candidate_paths>>
       ELSE IF ~secrets.section
       THEN /\ result' = Failed(AgeingLoad, MissingSection)
            /\ UNCHANGED <<pc, candidate_paths>>
       ELSE LET cands == CandidatePaths(secrets)
            IN  /\ candidate_paths' = cands
                /\ IF cands = <<>>
                   THEN /\ result' = NotFoundOnFtp(cands, NoExc)
                        /\ pc' = "idle"
                   ELSE /\ result' = NoResult
                        /\ pc' = "loop"
    /\ view' = PageShown(result', view)
    /\ UNCHANGED <<secrets, remote, dl_cache, load_cache, lastCall, firstOk>>
    /\ UNCHANGED <<df, today, sort_ties>>

\* one iteration of "for remote_path in candidate_paths", and what follows the
\* loop when it ends here: the return, the for-else raise, or an exception
\* the except clause does not catch
AgeingTry(net) ==
    /\ pc = "loop"
    /\ k <= Len(candidate_paths)
    /\ LET path == candidate_paths[k]
           r == ReadTabular(path, secrets, remote, dl_cache, net)
       IN  /\ NoteCall(path, r)
           /\ tried' = Append(tried, path)
           /\ raised' = r.exc
           /\ transportFailed' = (transportFailed \/ r.exc.cls \in TransportClasses)
           /\ IF r.exc = NoExc
              THEN /\ result' = Returned(AgeingLoad, r.df, FALSE)
                   /\ load_cache' = [load_cache EXCEPT ![AgeingLoad] = r.df]
                   /\ pc' = "idle"
                   /\ UNCHANGED <<k, last_error>>
              ELSE IF ~CaughtInLoop(r.exc)
              THEN /\ result' = Failed(AgeingLoad, r.exc)
                   /\ pc' = "idle"
                   /\ UNCHANGED <<k, last_error, load_cache>>
              ELSE /\ last_error' = r.exc
                   /\ k' = k + 1
                   /\ UNCHANGED load_cache
                   /\ IF k = Len(candidate_paths)
                      THEN /\ result' = NotFoundOnFtp(candidate_paths, r.exc)
                           /\ pc' = "idle"
                      ELSE /\ UNCHANGED <<result, pc>>
    /\ view' = PageShown(result', view)
    /\ UNCHANGED <<secrets, remote, candidate_paths>>
    /\ UNCHANGED <<df, today, sort_ties>>

Next ==
    \/ \E p \in Paths, c \in Contents : ServerReplace(p, c)
    \/ \E load \in SimpleLoads, net \in NetOutcomes : SimpleLoad(load, net)
    \/ AgeingStart
    \/ \E net \in NetOutcomes : AgeingTry(net)

Spec == Init /\ [][Next]_vars

(***************************************************************************)
(* Properties of the loader.                                               *)
(***************************************************************************)

\* C1: once a fetch of path p has succeeded, every later fetch of p returns
\* the bytes of that first success and opens no session, whatever the server
\* holds by then; a path that has not succeeded before is answered by a
\* session of its own with what the server holds for it.
C1_CachedFetchIsRepeated ==
    /\ lastCall.known # None =>
           /\ lastCall.val = lastCall.known
           /\ ~lastCall.session
    /\ (lastCall.known = None /\ lastCall.val # None) =>
           /\ lastCall.session
           /\ lastCall.val = lastCall.srv

\* a fetch answered from the cache although the server's file has changed
C1_Witness ==
    /\ lastCall.known # None
    /\ lastCall.val = lastCall.known
    /\ lastCall.srv \notin {Absent, lastCall.val}

\* the candidates in the order the claim gives them, before empty paths and
\* repetitions are dropped
ClaimedOrder(s) ==
    <<s.paths["inventory"], s.paths["stock_ageing"], s.paths["inventory_ageing"]>>
    \o (IF HasSlash(s.paths["inventory"])
        THEN [i \in 1..Len(WellKnownNames) |->
                 InBaseDir(s.paths["inventory"], WellKnownNames[i][1], WellKnownNames[i][2])]
        ELSE <<>>)

Rank(p, order) ==
    CHOOSE i \in 1..Len(order) : order[i] = p /\ \A j \in 1..(i - 1) : order[j] # p

\* seq visits the non-empty paths of order from the front, each once, with none skipped
VisitsInOrder(seq, order) ==
    /\ \A i \in 1..Len(seq) : seq[i] # EmptyPath /\ InSeq(seq[i], order)
    /\ \A i, j \in 1..Len(seq) : i < j => Rank(seq[i], order) < Rank(seq[j], order)
    /\ seq # <<>> =>
           \A r \in 1..Rank(seq[Len(seq)], order) :
               order[r] # EmptyPath => InSeq(order[r], seq)

AgeingFinished == pc = "idle" /\ result.load = AgeingLoad /\ ~result.fromCache

\* C2: load_stock_ageing_data attempts its candidates strictly in list order;
\* it goes on to the next one only after an attempt failed, and it returns
\* the dataset decoded from the first candidate that succeeds, attempting
\* nothing after it.
C2_FirstSuccessInOrder ==
    /\ (pc = "loop" \/ AgeingFinished) => VisitsInOrder(tried, ClaimedOrder(secrets))
    /\ (pc = "loop" /\ tried # <<>>) => raised # NoExc
    /\ (AgeingFinished /\ result.ok) =>
           /\ tried # <<>>
           /\ raised = NoExc
           /\ lastCall.path = tried[Len(tried)]
           /\ result.df = Table(lastCall.val)
           /\ load_cache[AgeingLoad] = result.df

\* the load returned the dataset of its fifth candidate after four failures
C2_Witness ==
    /\ AgeingFinished
    /\ result.ok
    /\ Len(tried) >= 4
    /\ tried[1] = secrets.paths["inventory"]

\* the load attempted every candidate and the last attempt failed too
AllCandidatesFailed ==
    /\ AgeingFinished
    /\ candidate_paths # <<>>
    /\ tried = candidate_paths
    /\ raised # NoExc

NoRepetition(seq) == \A i, j \in 1..Len(seq) : i # j => seq[i] # seq[j]

NotFoundReport ==
    /\ ~result.ok
    /\ result.df = None
    /\ load_cache[AgeingLoad] = None
    /\ result.exc.cls = "FileNotFoundError"
    /\ result.listed = tried
    /\ NoRepetition(result.listed)
    /\ result.last = raised

\* C3 as stated: when every candidate fails, the load fails with the
\* not-found error listing every attempted path once, in attempt order, with
\* the last candidate's error.
C3_AllFailedIsNotFound == AllCandidatesFailed => NotFoundReport

\* C3 amended: the same, when every candidate fails with an error of a class
\* the loop catches; an error of another class leaves the load as it is.
C3_AllCaughtIsNotFound ==
    /\ (AllCandidatesFailed
          /\ raised.cls \in {"FileNotFoundError", "error_perm", "OSError", "ValueError"})
       => NotFoundReport
    /\ (AgeingFinished /\ raised.cls = "EOFError") =>
           /\ ~result.ok
           /\ result.exc = raised
           /\ load_cache[AgeingLoad] = None

\* all eight candidates failed with caught errors and the report lists them
C3_Witness ==
    /\ AllCandidatesFailed
    /\ NotFoundReport
    /\ Len(result.listed) >= 3
    /\ result.last.cls = "OSError"

ConfigurationErrors == {MissingSection, NotConfigured, PathIsEmpty}

\* C5: with host, user or password absent or empty, every load that has a
\* path to fetch fails with a configuration error, reported as such.
C5_MissingCredentialsReported ==
    (/\ secrets.section
     /\ ~CredsComplete(secrets)
     /\ pc = "idle"
     /\ result.load # None
     /\ (result.load = AgeingLoad => candidate_paths # <<>>))
    => (~result.ok /\ result.exc \in ConfigurationErrors)

\* C6: after a connection-level failure in a load, that load opens no
\* further network session.
C6_NoSessionAfterTransportFailure ==
    [][(pc = "loop" /\ transportFailed /\ lastCall' # lastCall) => ~lastCall'.session]_vars

\* the positions of the page at which element e is shown
Showing(e) == {i \in 1..Len(view.shown) : view.shown[i] = e}

\* the last page view ended with a failed load
LoadFailedOnPage == view.page # None /\ view.status = "error"

\* C16: a page whose load fails surfaces an error and shows no KPI card, chart
\* or table; the failed load is not kept, so the next page view runs the load
\* again; the Stock Ageing page shows one error message, then the diagnostic
\* text of the exception, and stops.
C16_FailedLoadShowsOnlyError ==
    LoadFailedOnPage =>
        /\ Showing("kpi") \cup Showing("chart") \cup Showing("table") = {}
        /\ Showing("error") \cup Showing("exception") # {}
        /\ view.page = "Stock Ageing" =>
               /\ Cardinality(Showing("error")) = 1
               /\ Cardinality(Showing("code")) = 1
               /\ \A i \in Showing("error"), j \in Showing("code") : i < j
               /\ Showing("exception") = {}
               /\ view.diagnostic # NoExc
        /\ (result.load # None /\ ~result.ok) =>
               /\ pc = "idle"
               /\ load_cache[result.load] = None
               /\ view.diagnostic = result.exc

\* the Stock Ageing page shows its not-found report, in a page view that ran
\* after another page view had failed
C16_Witness ==
    /\ LoadFailedOnPage
    /\ view.page = "Stock Ageing"
    /\ view.diagnostic.cls = "FileNotFoundError"
    /\ view.previous = "error"
    /\ result.load = AgeingLoad

MaxRows == 2

Num(n) == [t |-> "num", n |-> n]

Text == [t |-> "text", n |-> 0]

Blank == [t |-> "blank", n |-> 0]

\* a text cell that spells a number, such as "4"
NumText(n) == [t |-> "numtext", n |-> n]

\* pd.to_numeric(cell, errors='coerce') followed by fillna(0)
ToNumeric(cell) == IF cell.t \in {"num", "numtext"} THEN cell.n ELSE 0

\* the seven aging-bucket columns, in the order the dashboards declare them
AgingCols ==
    <<"0 To 10 Days", "11 To 25 Days", "26 To 45 Days", "46 To 60 Days",
      "61 To 90 Days", "91 To 120 Days", "121 Days and above">>

BalanceCol == "Balance/G.Total"

\* str.strip() on the column spellings that occur
Strip(name) ==
    CASE name = " Balance/G.Total " -> "Balance/G.Total"
      [] name = "121 Days and above " -> "121 Days and above"
      [] OTHER -> name

AgingColSet == {AgingCols[i] : i \in 1..Len(AgingCols)}

FullColumns == {"BP Code", "BP Name", "Bill-To-State", BalanceCol} \cup AgingColSet

\* the column layouts of the sheets the dashboards are run on
ColumnSets ==
    { FullColumns,
      (FullColumns \ {BalanceCol, "121 Days and above"})
          \cup {" Balance/G.Total ", "121 Days and above "},
      FullColumns \ {BalanceCol},
      FullColumns \ {"BP Code"},
      FullColumns \ {"Bill-To-State"},
      FullColumns \ {"61 To 90 Days"},
      FullColumns \ AgingColSet }

Entities == { <<"C1", "Acme">>, <<"C1", "Bolt">> }

BalanceCells == { Num(100), Num(0), Num(0 - 5) }

AgingProfiles ==
    { <<Num(1), Num(2), Blank, Num(0), Num(3), Num(0), Num(0)>>,
      <<Num(0), Num(0), Text, Num(0), Num(0), Num(0), Num(4)>>,
      <<Num(0), Num(0), Num(0), Num(0), Num(2), Num(0), Num(0 - 2)>> }

OverdueRows ==
    { [code |-> e[1], name |-> e[2], state |-> "KA", bal |-> b, age |-> a] :
          e \in Entities, b \in BalanceCells, a \in AgingProfiles }

OverdueDatasets ==
    { [sheet |-> "overdue", cols |-> c, rows |-> r] :
          c \in ColumnSets,
          r \in UNION { [1..n -> OverdueRows] : n \in 0..MaxRows } }

RECURSIVE SeqSum(_)
SeqSum(seq) == IF seq = <<>> THEN 0 ELSE Head(seq) + SeqSum(Tail(seq))

AgingIndex(col) == CHOOSE i \in 1..Len(AgingCols) : AgingCols[i] = col

\* column names left as the sheet spells them
StripColumns_Kept(d) == d

\* df.columns = df.columns.str.strip()
StripColumns(d) == [d EXCEPT !.cols = {Strip(c) : c \in @}]

\* actual_aging_cols, and "aging_cols = actual_aging_cols if actual_aging_cols else aging_cols"
ActualAgingCols(d) == SelectSeq(AgingCols, LAMBDA c : c \in d.cols)

EffectiveAgingCols(d) ==
    IF ActualAgingCols(d) # <<>> THEN ActualAgingCols(d) ELSE AgingCols

\* a coercion of the balance column only
CoerceRow_BalanceOnly(row, d) ==
    [row EXCEPT !.bal = IF BalanceCol \in d.cols THEN Num(ToNumeric(@)) ELSE @]

\* the numeric coercion of the aging columns and of the balance column
CoerceRow(row, d) ==
    [row EXCEPT
        !.bal = IF BalanceCol \in d.cols THEN Num(ToNumeric(@)) ELSE @,
        !.age = [i \in 1..Len(AgingCols) |->
                    IF /\ AgingCols[i] \in d.cols
                       /\ InSeq(AgingCols[i], EffectiveAgingCols(d))
                    THEN Num(ToNumeric(@[i])) ELSE @[i]]]

Coerce(d) == [d EXCEPT !.rows = [i \in 1..Len(@) |-> CoerceRow(@[i], d)]]

\* df[col].sum()
ColumnSum(d, col) ==
    SeqSum([i \in 1..Len(d.rows) |->
               IF col = BalanceCol THEN d.rows[i].bal.n
               ELSE d.rows[i].age[AgingIndex(col)].n])

\* DataFrame.drop_duplicates(): the first row of each value is kept
RECURSIVE DropDuplicates(_)
DropDuplicates(seq) ==
    IF seq = <<>> THEN <<>>
    ELSE LET front == DropDuplicates(SubSeq(seq, 1, Len(seq) - 1))
             last == seq[Len(seq)]
         IN  IF InSeq(last, front) THEN front ELSE Append(front, last)

EntityOf(row) == <<row.code, row.name>>

\* rows with a strictly positive balance
PositiveBalance(row) == row.bal.n > 0

\* the base set (cust_df, cred_df) as built without drop_duplicates
ActiveEntities_Repeated(d) ==
    LET kept == SelectSeq(d.rows, PositiveBalance)
    IN  [i \in 1..Len(kept) |-> EntityOf(kept[i])]

\* df[df['Balance/G.Total'] > 0][['BP Code', 'BP Name']].drop_duplicates()
ActiveEntities(d) ==
    LET kept == SelectSeq(d.rows, PositiveBalance)
    IN  DropDuplicates([i \in 1..Len(kept) |-> EntityOf(kept[i])])

\* left.merge(right, on=['BP Code', 'BP Name']): an inner join, one output
\* row per matching pair, in the order of the left rows
RECURSIVE Merge(_, _)
Merge(left, right) ==
    IF left = <<>> THEN <<>>
    ELSE LET row == Head(left)
             hits == SelectSeq(right, LAMBDA e : e = EntityOf(row))
         IN  [i \in 1..Len(hits) |-> row] \o Merge(Tail(left), right)

\* the bucket rollup with the buckets in reverse
AgingData_Reversed(d, cols) ==
    [i \in 1..Len(cols) |->
        <<cols[Len(cols) + 1 - i], ColumnSum(d, cols[Len(cols) + 1 - i])>>]

\* aging_data: one (Bucket, Amount) entry per column of aging_cols
AgingData(d, cols) == [i \in 1..Len(cols) |-> <<cols[i], ColumnSum(d, cols[i])>>]

\* the permutations of seq that are in non-increasing order of the keys,
\* keys[i] being the sort key of seq[i]
SortedDescending(seq, keys) ==
    LET n == Len(seq)
        perms == {f \in [1..n -> 1..n] : \A i, j \in 1..n : i # j => f[i] # f[j]}
    IN  { [i \in 1..n |-> seq[f[i]]] : f \in
              {g \in perms : \A i, j \in 1..n : i < j => keys[g[i]] >= keys[g[j]]} }

HasAll(d, names) == \A c \in names : c \in d.cols

\* High_Risk_Amount: 61 To 90 + 91 To 120 + 121 Days and above
HighRiskAmount(row) == row.age[5].n + row.age[6].n + row.age[7].n

\* Risk_Amount: 91 To 120 + 121 Days and above
RiskAmount(row) == row.age[6].n + row.age[7].n

\* what a page run leaves on the page
EmptyWarning(page) ==
    [page |-> page, status |-> "no data", total_outstanding |-> 0, total_entities |-> 0,
     active |-> <<>>, balance_found |-> FALSE, aging_shown |-> FALSE, aging_data |-> <<>>,
     aging_warning |-> FALSE, risk_shown |-> FALSE, risk_rows |-> <<>>, risk_count |-> 0,
     frame |-> NoData]

KeyErrorView(page) == [EmptyWarning(page) EXCEPT !.status = "KeyError"]

\* display_overdue_payment_dashboard() on the dataset load_overdue_payment_data() returned
OverduePaymentViews(raw) ==
    IF raw.rows = <<>> \/ raw.cols = {}
    THEN {EmptyWarning("Overdue Payment")}
    ELSE LET d == Coerce(StripColumns(raw))
             aging_cols == EffectiveAgingCols(d)
             hasBalance == BalanceCol \in d.cols
         IN  IF hasBalance /\ ~HasAll(d, {"BP Code", "BP Name"})
             THEN {[KeyErrorView("Overdue Payment") EXCEPT !.frame = d]}
             ELSE LET cust_df == IF hasBalance THEN ActiveEntities(d) ELSE <<>>
                      chart == aging_cols # <<>>
                                  /\ \A i \in 1..Len(aging_cols) : aging_cols[i] \in d.cols
                      risk == HasAll(d, {"BP Code", "BP Name", "61 To 90 Days", "91 To 120 Days",
                                         "121 Days and above", BalanceCol})
                      flagged == SelectSeq(d.rows, LAMBDA r : HighRiskAmount(r) > 0)
                      high_risk == IF cust_df # <<>> THEN Merge(flagged, cust_df) ELSE flagged
                  IN  { [page |-> "Overdue Payment", status |-> "rendered",
                         total_outstanding |-> IF hasBalance THEN ColumnSum(d, BalanceCol) ELSE 0,
                         total_entities |-> Len(cust_df),
                         active |-> cust_df,
                         balance_found |-> hasBalance,
                         aging_shown |-> chart,
                         aging_data |-> IF chart THEN AgingData(d, aging_cols) ELSE <<>>,
                         aging_warning |-> ~chart,
                         risk_shown |-> risk,
                         risk_rows |-> IF risk THEN sorted ELSE <<>>,
                         risk_count |-> IF risk THEN Len(sorted) ELSE 0,
                         frame |-> d] :
                        sorted \in IF risk THEN SortedDescending(high_risk,
                                            [i \in 1..Len(high_risk) |-> HighRiskAmount(high_risk[i])])
                                   ELSE {<<>>} }

\* display_overdue_creditor_dashboard() on the dataset load_overdue_creditor_data() returned
OverdueCreditorViews(raw) ==
    IF raw.rows = <<>> \/ raw.cols = {}
    THEN {EmptyWarning("Overdue Creditor")}
    ELSE LET d == Coerce(StripColumns(raw))
             aging_cols == EffectiveAgingCols(d)
             hasBalance == BalanceCol \in d.cols
         IN  IF hasBalance /\ ~HasAll(d, {"BP Code", "BP Name"})
             THEN {[KeyErrorView("Overdue Creditor") EXCEPT !.frame = d]}
             ELSE LET cred_df == IF hasBalance THEN ActiveEntities(d) ELSE <<>>
                      chart == aging_cols # <<>>
                                  /\ \A i \in 1..Len(aging_cols) : aging_cols[i] \in d.cols
                      risk == HasAll(d, {"BP Code", "BP Name", "Bill-To-State", "91 To 120 Days",
                                         "121 Days and above", BalanceCol})
                      flagged == SelectSeq(d.rows, LAMBDA r : RiskAmount(r) > 0 /\ r.bal.n > 0)
                      risk_creditors == IF cred_df # <<>> THEN Merge(flagged, cred_df) ELSE flagged
                  IN  { [page |-> "Overdue Creditor", status |-> "rendered",
                         total_outstanding |-> IF hasBalance THEN ColumnSum(d, BalanceCol) ELSE 0,
                         total_entities |-> Len(cred_df),
                         active |-> cred_df,
                         balance_found |-> hasBalance,
                         aging_shown |-> chart,
                         aging_data |-> IF chart THEN AgingData(d, aging_cols) ELSE <<>>,
                         aging_warning |-> ~chart,
                         risk_shown |-> risk,
                         risk_rows |-> IF risk THEN sorted ELSE <<>>,
                         risk_count |-> IF risk THEN Len(sorted) ELSE 0,
                         frame |-> d] :
                        sorted \in IF risk THEN SortedDescending(risk_creditors,
                                            [i \in 1..Len(risk_creditors) |-> risk_creditors[i].bal.n])
                                   ELSE {<<>>} }

\* the loader is not part of this specification
LoaderAtRest ==
    /\ secrets = [section |-> FALSE, cred |-> [host |-> "", user |-> "", password |-> ""],
                  paths |-> [key \in Keys |-> EmptyPath]]
    /\ remote = [p \in Paths |-> Absent]
    /\ dl_cache = [p \in Paths |-> None]
    /\ load_cache = [l \in SimpleLoads \cup {AgeingLoad} |-> None]
    /\ pc = "idle"
    /\ candidate_paths = <<>>
    /\ k = 1
    /\ tried = <<>>
    /\ last_error = NoExc
    /\ raised = NoExc
    /\ transportFailed = FALSE
    /\ result = NoResult
    /\ lastCall = NoCall
    /\ firstOk = [p \in Paths |-> None]

(***************************************************************************)
(* The Stock Ageing page.  A row of the stock sheet has a brand and, for   *)
(* each of the eight buckets, a quantity cell and a value cell.            *)
(***************************************************************************)
\* (label, quantity column, value column); the labels are spelt with an en dash in the source
StockBuckets ==
    << <<"0-15 Days", "0-15Qty", "0-15Value">>,
       <<"16-30 Days", "16-30Qty", "16-30Value">>,
       <<"31-60 Days", "31-60Qty", "31-60Value">>,
       <<"61-90 Days", "61-90Qty", "61-90Value">>,
       <<"91-180 Days", "91-180Qty", "91-180Value">>,
       <<"181-360 Days", "181-360Qty", "181-360Value">>,
       <<"361-720 Days", "361-720Qty", "361-720Value">>,
       <<"721+ Days", "721+Qty", "721+DaysValue">> >>

BucketIds == 1..Len(StockBuckets)

QtyCol(b) == StockBuckets[b][2]

ValCol(b) == StockBuckets[b][3]

StockColumns == {"Brand"} \cup {QtyCol(b) : b \in BucketIds} \cup {ValCol(b) : b \in BucketIds}

StockColumnSets ==
    {StockColumns} \cup { StockColumns \ {c} : c \in {"Brand", "721+Qty", "0-15Value"} }

Nums(seq) == [i \in 1..Len(seq) |-> Num(seq[i])]

StockProfiles ==
    { [qty |-> Nums(<<0, 0, 0, 0, 0, 0, 0, 0>>), val |-> Nums(<<0, 0, 0, 0, 0, 0, 0, 0>>)],
      [qty |-> Nums(<<1, 0, 2, 0, 0, 1, 0, 3>>), val |-> Nums(<<10, 0, 20, 0, 0, 5, 0, 30>>)],
      [qty |-> <<Text, NumText(4), Num(0), Blank, Num(1), Num(1), Num(2), Num(0)>>,
       val |-> <<Num(7), Text, Num(0), Num(9), Blank, Num(1), Num(8), Num(0)>>] }

StockRows == { [brand |-> b, qty |-> p.qty, val |-> p.val] : b \in {"Amul", "Bru"}, p \in StockProfiles }

StockDatasets ==
    { [sheet |-> "inventory", cols |-> c, rows |-> r] :
          c \in StockColumnSets,
          r \in UNION { [1..n -> StockRows] : n \in 0..MaxRows } }

\* the numeric coercion at the end of load_stock_ageing_data()
CoerceStock(d) ==
    [d EXCEPT !.rows =
        [i \in 1..Len(@) |->
            [@[i] EXCEPT
                !.qty = [b \in BucketIds |-> IF QtyCol(b) \in d.cols THEN Num(ToNumeric(@[b])) ELSE @[b]],
                !.val = [b \in BucketIds |-> IF ValCol(b) \in d.cols THEN Num(ToNumeric(@[b])) ELSE @[b]]]]]

\* ageing_df[qty_col].sum() and ageing_df[val_col].sum()
QtySum(d, b) == SeqSum([i \in 1..Len(d.rows) |-> d.rows[i].qty[b].n])

ValSum(d, b) == SeqSum([i \in 1..Len(d.rows) |-> d.rows[i].val[b].n])

\* ageing_df[[...]].sum().sum() over the buckets of a range
QtyOver(d, bs) == SeqSum([j \in 1..Len(bs) |-> QtySum(d, bs[j])])

ValOver_FirstOnly(d, bs) == ValSum(d, bs[1])

ValOver(d, bs) == SeqSum([j \in 1..Len(bs) |-> ValSum(d, bs[j])])

FreshBuckets == <<1, 2>>

OldBuckets == <<3, 4, 5, 6, 7, 8>>

\* dist_rows: one record per bucket, in the order of the list
DistRows(d) ==
    [b \in BucketIds |->
        [Bucket |-> StockBuckets[b][1], Quantity |-> QtySum(d, b), Value |-> ValSum(d, b)]]

\* dist_df.loc[dist_df['Bucket'].isin(labels), 'Inventory Value'].sum()
DistValue(dist, labels) ==
    SeqSum([b \in 1..Len(dist) |-> IF dist[b].Bucket \in labels THEN dist[b].Value ELSE 0])

StockFailure(cls) ==
    [page |-> "Stock Ageing", status |-> cls, fresh_qty |-> 0, fresh_val |-> 0,
     old_qty |-> 0, old_val |-> 0, dist_rows |-> <<>>, kpi_fresh |-> 0, kpi_slow |-> 0,
     kpi_risk |-> 0, kpi_dead |-> 0, frame |-> NoData]

\* the Stock Ageing page, on the dataset the workbook decoded to
StockAgeingView(raw) ==
    LET d == CoerceStock(raw)
        dist == DistRows(d)
    IN  IF ~(StockColumns \ {"Brand"} \subseteq d.cols)
        THEN [StockFailure("KeyError") EXCEPT !.frame = d]
        ELSE IF "Brand" \notin d.cols THEN [StockFailure("KeyError") EXCEPT !.frame = d]
        ELSE [page |-> "Stock Ageing", status |-> "rendered",
              fresh_qty |-> QtyOver(d, FreshBuckets), fresh_val |-> ValOver(d, FreshBuckets),
              old_qty |-> QtyOver(d, OldBuckets), old_val |-> ValOver(d, OldBuckets),
              dist_rows |-> dist,
              kpi_fresh |-> DistValue(dist, {"0-15 Days", "16-30 Days"}),
              kpi_slow |-> DistValue(dist, {"31-60 Days", "61-90 Days"}),
              kpi_risk |-> DistValue(dist, {"91-180 Days", "181-360 Days"}),
              kpi_dead |-> DistValue(dist, {"361-720 Days", "721+ Days"}),
              frame |-> d]

AgingInit ==
    /\ LoaderAtRest
    /\ df \in OverdueDatasets \cup StockDatasets
    /\ today = 0
    /\ sort_ties = "row order"
    /\ view = NoView

DisplayOverduePayment ==
    /\ df.sheet = "overdue"
    /\ view' \in OverduePaymentViews(df)
    /\ UNCHANGED <<df, today, sort_ties, loaderVars>>

DisplayOverdueCreditor ==
    /\ df.sheet = "overdue"
    /\ view' \in OverdueCreditorViews(df)
    /\ UNCHANGED <<df, today, sort_ties, loaderVars>>

DisplayStockAgeing ==
    /\ df.sheet = "inventory"
    /\ view' = StockAgeingView(df)
    /\ UNCHANGED <<df, today, sort_ties, loaderVars>>

AgingNext == DisplayOverduePayment \/ DisplayOverdueCreditor \/ DisplayStockAgeing

SpecAging == AgingInit /\ [][AgingNext]_vars

(***************************************************************************)
(* Properties of the aging pages, stated on the dataset as decoded.        *)
(***************************************************************************)
OverduePages == {"Overdue Payment", "Overdue Creditor"}

Rendered == view.page \in OverduePages /\ view.status = "rendered"

\* the column is in the sheet, whatever blanks surround its name
InSheet(col) == \E c \in df.cols : Strip(c) = col

\* the entities with a strictly positive balance in some row
ActiveSet ==
    IF InSheet(BalanceCol)
    THEN { EntityOf(df.rows[i]) : i \in {j \in 1..Len(df.rows) : ToNumeric(df.rows[j].bal) > 0} }
    ELSE {}

\* the sum of a row's tail buckets: 61+ days for receivables, 91+ for payables
TailSum(page, row) ==
    IF page = "Overdue Payment"
    THEN ToNumeric(row.age[5]) + ToNumeric(row.age[6]) + ToNumeric(row.age[7])
    ELSE ToNumeric(row.age[6]) + ToNumeric(row.age[7])

\* C4: on both dashboards every row of the high-risk set has a strictly
\* positive tail-bucket sum and belongs to an entity of the active set, also
\* when no entity has a positive balance.
C4_HighRiskWithinActive ==
    (Rendered /\ view.risk_shown) =>
        \A i \in 1..Len(view.risk_rows) :
            /\ TailSum(view.page, view.risk_rows[i]) > 0
            /\ EntityOf(view.risk_rows[i]) \in ActiveSet

\* C7: a dataset that lacks expected columns never makes the page raise.
C7_MissingColumnNeverRaises ==
    view.page \in OverduePages => view.status # "KeyError"

\* C8: the active-entity count is the number of distinct (BP Code, BP Name)
\* pairs among the rows with a strictly positive balance, and 0 when the
\* balance column is absent.
C8_ActiveEntityCount ==
    Rendered =>
        /\ view.total_entities = Cardinality(ActiveSet)
        /\ ~InSheet(BalanceCol) => view.total_entities = 0

\* two rows of one entity with a positive balance count once
C8_Witness ==
    /\ Rendered
    /\ Len(df.rows) = 2
    /\ EntityOf(df.rows[1]) = EntityOf(df.rows[2])
    /\ ToNumeric(df.rows[1].bal) > 0
    /\ ToNumeric(df.rows[2].bal) > 0
    /\ view.total_entities = 1

\* the declared buckets whose column is in the sheet, in declared order
BucketsInSheet == SelectSeq(AgingCols, InSheet)

\* the column-wise sum of a bucket over the rows of the sheet
BucketTotal(col) ==
    SeqSum([i \in 1..Len(df.rows) |-> ToNumeric(df.rows[i].age[AgingIndex(col)])])

\* the sum of every bucket cell of the sheet, row by row
AllCellsTotal ==
    SeqSum([i \in 1..Len(df.rows) |->
               SeqSum([b \in 1..Len(BucketsInSheet) |->
                          ToNumeric(df.rows[i].age[AgingIndex(BucketsInSheet[b])])])])

\* the rollup of an overdue dashboard, when its chart is shown
OverdueRollupExact ==
    (Rendered /\ view.aging_shown) =>
        /\ Len(view.aging_data) = Len(BucketsInSheet)
        /\ \A i \in 1..Len(view.aging_data) :
               /\ view.aging_data[i][1] = BucketsInSheet[i]
               /\ view.aging_data[i][2] = BucketTotal(BucketsInSheet[i])
        /\ SeqSum([i \in 1..Len(view.aging_data) |-> view.aging_data[i][2]]) = AllCellsTotal

\* the rollup of the Stock Ageing page
StockRollupExact ==
    (view.page = "Stock Ageing" /\ view.status = "rendered") =>
        /\ Len(view.dist_rows) = Len(StockBuckets)
        /\ \A b \in 1..Len(view.dist_rows) :
               /\ view.dist_rows[b].Bucket = StockBuckets[b][1]
               /\ view.dist_rows[b].Quantity =
                      SeqSum([i \in 1..Len(df.rows) |-> ToNumeric(df.rows[i].qty[b])])
               /\ view.dist_rows[b].Value =
                      SeqSum([i \in 1..Len(df.rows) |-> ToNumeric(df.rows[i].val[b])])
        /\ SeqSum([b \in 1..Len(view.dist_rows) |-> view.dist_rows[b].Value]) =
               SeqSum([i \in 1..Len(df.rows) |->
                          SeqSum([b \in 1..Len(StockBuckets) |-> ToNumeric(df.rows[i].val[b])])])

\* C9: the rollup has one (bucket, amount) entry per aging bucket of the
\* sheet, in declared order and not in order of amount, each amount the
\* column-wise sum of the coerced cells, so that the rollup's total is the
\* total of all bucket cells: no row is dropped or counted twice.
C9_BucketRollup == OverdueRollupExact /\ StockRollupExact

\* a rollup of all seven buckets whose amounts are not in order of size
C9_Witness ==
    /\ Rendered
    /\ view.aging_shown
    /\ Len(view.aging_data) = Len(AgingCols)
    /\ Len(df.rows) = 2
    /\ view.aging_data[1][2] < view.aging_data[5][2]
    /\ view.aging_data[5][2] > view.aging_data[6][2]
    /\ view.aging_data[6][2] < view.aging_data[7][2]

\* the number a cell stands for: its own when it is a number or spells one, else 0
Parsed(cell) == IF cell.t \in {"num", "numtext"} THEN cell.n ELSE 0

\* the page has run its reconciliation on a sheet that is not empty
Reconciled(page) == view.page = page /\ view.status \in {"rendered", "KeyError"}

\* the cell of a declared numeric column of an overdue sheet
OverdueCell(row, col) == IF col = BalanceCol THEN row.bal ELSE row.age[AgingIndex(col)]

OverdueCoerced ==
    (Reconciled("Overdue Payment") \/ Reconciled("Overdue Creditor")) =>
        /\ Len(view.frame.rows) = Len(df.rows)
        /\ \A i \in 1..Len(df.rows), col \in AgingColSet \cup {BalanceCol} :
               InSheet(col) =>
                   OverdueCell(view.frame.rows[i], col) = Num(Parsed(OverdueCell(df.rows[i], col)))

StockCoerced ==
    Reconciled("Stock Ageing") =>
        /\ Len(view.frame.rows) = Len(df.rows)
        /\ \A i \in 1..Len(df.rows), b \in 1..Len(StockBuckets) :
               /\ StockBuckets[b][2] \in df.cols =>
                      view.frame.rows[i].qty[b] = Num(Parsed(df.rows[i].qty[b]))
               /\ StockBuckets[b][3] \in df.cols =>
                      view.frame.rows[i].val[b] = Num(Parsed(df.rows[i].val[b]))

\* C13: after reconciliation every cell of every declared numeric column that
\* is present holds a number: 0 for an empty cell or unparsable text, its own
\* value for a parsable cell; the row count is unchanged.
C13_CoercedCells == OverdueCoerced /\ StockCoerced

\* a sheet with an empty cell and a text cell in bucket columns, reconciled
C13_Witness ==
    /\ Reconciled("Overdue Payment")
    /\ Len(df.rows) = 2
    /\ InSheet("26 To 45 Days") /\ InSheet("0 To 10 Days")
    /\ df.rows[1].age[3] = Blank /\ view.frame.rows[1].age[3] = Num(0)
    /\ df.rows[2].age[3] = Text /\ view.frame.rows[2].age[3] = Num(0)
    /\ df.rows[1].age[1] = Num(1) /\ view.frame.rows[1].age[1] = Num(1)

\* the sheet with every column named without blanks around the name
Unpadded == [df EXCEPT !.cols = {Strip(c) : c \in @}]

\* a column of the sheet is spelt with blanks around an expected name
Padded == \E c \in df.cols : Strip(c) # c

\* C14: on both overdue dashboards a column whose name is an expected name
\* with blanks around it is treated as that column: the page shows what it
\* shows for the sheet named without the padding, with the padded balance
\* column coerced and used for the total and the active-entity count and the
\* padded bucket column summed in the rollup.
C14_PaddedColumnRecognized ==
    view.page \in OverduePages =>
        /\ view \in (IF view.page = "Overdue Payment"
                     THEN OverduePaymentViews(Unpadded)
                     ELSE OverdueCreditorViews(Unpadded))
        /\ (Rendered /\ InSheet(BalanceCol)) =>
               /\ view.balance_found
               /\ view.total_outstanding =
                      SeqSum([i \in 1..Len(df.rows) |-> Parsed(df.rows[i].bal)])
               /\ view.total_entities = Cardinality(ActiveSet)
        /\ (Rendered /\ \A i \in 1..Len(AgingCols) : InSheet(AgingCols[i])) =>
               /\ view.aging_shown
               /\ \A i \in 1..Len(AgingCols) :
                      view.aging_data[i] = <<AgingCols[i], BucketTotal(AgingCols[i])>>

\* a sheet with ' Balance/G.Total ' and '121 Days and above ' whose balance and
\* last bucket are counted
C14_Witness ==
    /\ Rendered
    /\ Padded
    /\ " Balance/G.Total " \in df.cols
    /\ view.total_outstanding > 0
    /\ view.total_entities = 1
    /\ view.aging_shown
    /\ view.aging_data[7] = <<"121 Days and above", 4>>

\* C15: whenever at least one of the seven aging-bucket columns is absent from
\* a sheet with rows, all of them or only some, the dashboard runs to its end
\* and shows the warning that aging bucket columns were not found.
C15_MissingBucketWarned ==
    (/\ view.page \in OverduePages
     /\ df.rows # <<>>
     /\ \E i \in 1..Len(AgingCols) : ~InSheet(AgingCols[i])) =>
        /\ view.status = "rendered"
        /\ view.aging_warning

\* the coerced quantity cells of the sheet's rows in buckets lo..hi, added up
QtyCells(lo, hi) ==
    SeqSum([i \in 1..Len(df.rows) |->
               SeqSum([b \in 1..(hi - lo + 1) |-> ToNumeric(df.rows[i].qty[lo + b - 1])])])

\* the same for the value cells
ValCells(lo, hi) ==
    SeqSum([i \in 1..Len(df.rows) |->
               SeqSum([b \in 1..(hi - lo + 1) |-> ToNumeric(df.rows[i].val[lo + b - 1])])])

\* C24: on the Stock Ageing page fresh quantity and value are the sums of the
\* 0-15 and 16-30 columns, old quantity and value the sums of the six older
\* ones, fresh + old the sum of all eight, and the Fresh Stock Value of the
\* distribution is the fresh value of the split; fresh, slow, risk and dead
\* value add up to fresh + old.
C24_FreshOldSplit ==
    (view.page = "Stock Ageing" /\ view.status = "rendered") =>
        /\ view.fresh_qty = QtyCells(1, 2)
        /\ view.fresh_val = ValCells(1, 2)
        /\ view.old_qty = QtyCells(3, 8)
        /\ view.old_val = ValCells(3, 8)
        /\ view.fresh_qty + view.old_qty = QtyCells(1, 8)
        /\ view.fresh_val + view.old_val = ValCells(1, 8)
        /\ view.kpi_fresh = view.fresh_val
        /\ view.kpi_fresh + view.kpi_slow + view.kpi_risk + view.kpi_dead =
               view.fresh_val + view.old_val

\* a sheet with text and blank cells: fresh value 7, old value 18
C24_Witness ==
    /\ view.page = "Stock Ageing"
    /\ view.status = "rendered"
    /\ Len(df.rows) = 1
    /\ df.rows[1].val[2] = Text
    /\ view.fresh_val = 7
    /\ view.old_val = 18
    /\ view.kpi_fresh = 7
    /\ view.kpi_slow = 9

\* C29: on the Overdue Payment dashboard the High-Risk Customers number is
\* at most the Total Customers number, and no entity is counted twice in it.
C29_HighRiskAtMostTotal ==
    (view.page = "Overdue Payment" /\ view.status = "rendered" /\ view.risk_shown) =>
        /\ view.risk_count <= view.total_entities
        /\ \A i, j \in 1..Len(view.risk_rows) :
               i # j => EntityOf(view.risk_rows[i]) # EntityOf(view.risk_rows[j])

(***************************************************************************)
(* Part 3.  The Overdue Sales Orders page: load_sales_data() and the page  *)
(* body that filters the open lines and ages them from the posting date.   *)
(* A date is a day number; today is the day number of the rerun.           *)
(***************************************************************************)
MaxLines == 2

Date(d) == [t |-> "date", n |-> d]

\* the missing value of a numeric or datetime column (NaN, NaT)
NaN == [t |-> "nan", n |-> 0]

SalesPage == "Overdue Sales Orders"

SalesColumns ==
    {"Posting Date", "Due Date", "Line Status", "OpenQty", "LineTotalBeforeTax", "BP Name",
     "Ship-To-State", "Ship-to-city"}

SalesColumnSets ==
    {SalesColumns} \cup
    { SalesColumns \ {c} :
          c \in {"Posting Date", "Due Date", "Line Status", "OpenQty", "LineTotalBeforeTax",
                 "Ship-To-State"} }

\* a posting date cell of the workbook: a date, an empty cell, or text that is no date
PostingCells == {Date(1), Date(20), Date(25), Blank, Text}

Line(p, s, q, a) ==
    [posting |-> p, due |-> Blank, status |-> s, qty |-> q, amount |-> a, name |-> "Acme"]

\* the same line with a Due Date cell
WithDue(line, d) == [line EXCEPT !.due = d]

SalesLines ==
    { Line(p, "O", Num(1), Num(10)) : p \in PostingCells } \cup
    { Line(Date(1), " O ", Num(2), Num(5)),
      Line(Date(1), "C", Num(1), Num(10)),
      Line(Date(1), "O", Num(0), Num(10)),
      Line(Date(1), "O", Text, Num(10)),
      Line(Date(1), "O", Num(1), Num(0)) } \cup
    { WithDue(Line(Date(1), "O", Num(1), Num(10)), d) : d \in {Date(2), Date(60), Text} }

SalesDatasets ==
    { [sheet |-> "open_so", cols |-> c, rows |-> r] :
          c \in SalesColumnSets,
          r \in UNION { [1..n -> SalesLines] : n \in 0..MaxLines } }

Todays == {25, 40}

\* pd.to_datetime(cell): a date stays, an empty cell becomes NaT
ToDatetime(cell) == IF cell.t = "date" THEN cell ELSE NaN

\* pd.to_datetime(cell, errors='coerce'): text that is no date becomes NaT too
ToDatetimeCoerce(cell) == IF cell.t = "date" THEN cell ELSE NaN

\* load_sales_data(): the dataset, or the exception class it raises
LoadSalesData(raw) ==
    IF "Posting Date" \notin raw.cols
    THEN [ok |-> FALSE, exc |-> "KeyError", df |-> NoData]
    ELSE IF \E i \in 1..Len(raw.rows) : raw.rows[i].posting.t = "text"
    THEN [ok |-> FALSE, exc |-> "ValueError", df |-> NoData]
    ELSE IF ~({"Ship-To-State", "Ship-to-city"} \subseteq raw.cols)
    THEN [ok |-> FALSE, exc |-> "KeyError", df |-> NoData]
    ELSE [ok |-> TRUE, exc |-> None,
          df |-> [raw EXCEPT !.cols = @ \cup {"Display_State"},
                             !.rows = [i \in 1..Len(@) |->
                                          [@[i] EXCEPT
                                              !.posting = ToDatetime(@),
                                              !.due = IF "Due Date" \in raw.cols
                                                      THEN ToDatetimeCoerce(@) ELSE @]]]]

\* astype(str).str.strip() on a Line Status cell
StripStatus(s) == IF s = " O " THEN "O" ELSE s

\* the three filters of the page: open lines, open quantity, monetary value
OpenLines(d) ==
    LET f1 == IF "Line Status" \in d.cols
              THEN SelectSeq(d.rows, LAMBDA r : StripStatus(r.status) = "O")
              ELSE d.rows
        f2 == IF "OpenQty" \in d.cols
              THEN SelectSeq(f1, LAMBDA r : ToNumeric(r.qty) > 0)
              ELSE f1
    IN  IF "LineTotalBeforeTax" \in d.cols
        THEN SelectSeq(f2, LAMBDA r : ToNumeric(r.amount) > 0)
        ELSE f2

\* Overdue Days counted from the due date where the line has one
OverdueDays_FromDue(d, r, day) ==
    IF r.due.t = "date" THEN Num(day - r.due.n)
    ELSE IF r.posting.t = "date" THEN Num(day - r.posting.n) ELSE NaN

\* the Overdue Days of one line
OverdueDays(d, r, day) ==
    IF "Posting Date" \in d.cols
    THEN (IF r.posting.t = "date" THEN Num(day - r.posting.n) ELSE NaN)
    ELSE Num(0)

\* Series.mean(): the missing values are skipped; kept as sum over count
Mean(days) ==
    LET known == SelectSeq(days, LAMBDA v : v.t = "num")
    IN  IF known = <<>> THEN NaN
        ELSE [t |-> "mean", sum |-> SeqSum([i \in 1..Len(known) |-> known[i].n]),
              n |-> Len(known)]

\* (Overdue Days > 7).sum(): a comparison with a missing value is false
CriticalCount(days) == Len(SelectSeq(days, LAMBDA v : v.t = "num" /\ v.n > 7))

BucketLabels == <<"1-15 Days", "16-30 Days", "31-60 Days", "61-90 Days", "90+ Days">>

BucketBins == <<0, 15, 30, 60, 90, 9999>>

\* pd.cut(..., right=True): the label of (bins[i], bins[i+1]], or no label
AgeBucket(v) ==
    IF v.t = "num" /\ \E i \in 1..Len(BucketLabels) : BucketBins[i] < v.n /\ v.n <= BucketBins[i + 1]
    THEN BucketLabels[CHOOSE i \in 1..Len(BucketLabels) :
                          BucketBins[i] < v.n /\ v.n <= BucketBins[i + 1]]
    ELSE None

SalesFailure(cls) ==
    [page |-> SalesPage, status |-> cls, lines |-> <<>>, total_lines |-> 0,
     total_value |-> 0, avg_delay |-> NaN, critical_count |-> 0, bucket_sum |-> <<>>]

\* the page body, on the dataset load_sales_data() returned
OverdueSalesView(raw, day) ==
    LET loaded == LoadSalesData(raw) IN
    IF ~loaded.ok THEN SalesFailure(loaded.exc)
    ELSE LET d == loaded.df
             open == OpenLines(d)
             lines == [i \in 1..Len(open) |->
                          [line |-> open[i], days |-> OverdueDays(d, open[i], day)]]
             days == [i \in 1..Len(lines) |-> lines[i].days]
         IN  IF open = <<>> THEN SalesFailure("no overdue")
             ELSE IF "LineTotalBeforeTax" \notin d.cols THEN SalesFailure("KeyError")
             ELSE [page |-> SalesPage, status |-> "rendered", lines |-> lines,
                   total_lines |-> Len(lines),
                   total_value |-> SeqSum([i \in 1..Len(open) |-> ToNumeric(open[i].amount)]),
                   avg_delay |-> Mean(days),
                   critical_count |-> CriticalCount(days),
                   bucket_sum |->
                       [b \in 1..Len(BucketLabels) |->
                           <<BucketLabels[b],
                             SeqSum([i \in 1..Len(lines) |->
                                        IF AgeBucket(lines[i].days) = BucketLabels[b]
                                        THEN ToNumeric(lines[i].line.amount) ELSE 0])>>]]

SalesInit ==
    /\ LoaderAtRest
    /\ df \in SalesDatasets
    /\ today \in Todays
    /\ sort_ties = "row order"
    /\ view = NoView

DisplayOverdueSales ==
    /\ view' = OverdueSalesView(df, today)
    /\ UNCHANGED <<loaderVars, df, today, sort_ties>>

SalesNext == DisplayOverdueSales

SpecSales == SalesInit /\ [][SalesNext]_vars

\* the age a line is said to have: whole days since posting, 0 without a date
ClaimedAge(r) == IF r.posting.t = "date" THEN today - r.posting.n ELSE 0

\* the lines of the workbook that are open, with quantity and value
ClaimedOpenLines ==
    SelectSeq(df.rows, LAMBDA r : /\ StripStatus(r.status) = "O"
                                  /\ ToNumeric(r.qty) > 0
                                  /\ ToNumeric(r.amount) > 0)

\* C10: every open line has Overdue Days equal to the whole days between
\* today and its posting date, a line whose posting date is missing or
\* unparsable has Overdue Days 0 (a number), and these ages are the ones the
\* average delay and the >7-day count are computed from.
C10_MissingPostingDateIsAgeZero ==
    (view.page = SalesPage /\ df.cols = SalesColumns /\ ClaimedOpenLines # <<>>) =>
        /\ view.status = "rendered"
        /\ Len(view.lines) = Len(ClaimedOpenLines)
        /\ \A i \in 1..Len(view.lines) :
               view.lines[i].days = Num(ClaimedAge(ClaimedOpenLines[i]))
        /\ view.avg_delay =
               [t |-> "mean",
                sum |-> SeqSum([i \in 1..Len(ClaimedOpenLines) |-> ClaimedAge(ClaimedOpenLines[i])]),
                n |-> Len(ClaimedOpenLines)]
        /\ view.critical_count =
               Len(SelectSeq(ClaimedOpenLines, LAMBDA r : ClaimedAge(r) > 7))

\* the page went through its filters: it shows the lines or says there are none
SalesFiltered == view.page = SalesPage /\ view.status \in {"rendered", "no overdue"}

\* a line of the view is this row of the sheet, its dates parsed
SameLine(v, r) ==
    /\ v.status = r.status /\ v.qty = r.qty /\ v.amount = r.amount /\ v.name = r.name
    /\ IF r.posting.t = "date" THEN v.posting = r.posting ELSE v.posting.t # "date"

\* the view's lines are these rows, in order, aged from the posting date alone
ShowsExactly(rows) ==
    /\ Len(view.lines) = Len(rows)
    /\ \A i \in 1..Len(view.lines) :
           /\ SameLine(view.lines[i].line, rows[i])
           /\ rows[i].posting.t = "date" =>
                  view.lines[i].days = Num(today - rows[i].posting.n)

\* the rows that pass the condition of every filter column the sheet has
OpenByPresentColumns ==
    SelectSeq(df.rows,
              LAMBDA r : /\ "Line Status" \in df.cols => StripStatus(r.status) = "O"
                         /\ "OpenQty" \in df.cols => ToNumeric(r.qty) > 0
                         /\ "LineTotalBeforeTax" \in df.cols => ToNumeric(r.amount) > 0)

C26_BucketsSumToTotal ==
    (/\ view.page = SalesPage
     /\ view.status = "rendered"
     /\ \A i \in 1..Len(view.lines) : view.lines[i].days.t = "num" /\ view.lines[i].days.n >= 0) =>
        /\ \A i \in 1..Len(view.lines) : AgeBucket(view.lines[i].days) \in
               {BucketLabels[b] : b \in 1..Len(BucketLabels)}
        /\ SeqSum([b \in 1..Len(view.bucket_sum) |-> view.bucket_sum[b][2]]) = view.total_value

(***************************************************************************)
(* Part 4 (specification SpecTopN): the top-N selections of the pages.     *)
(* The candidates are the rows (or the groups) a selection ranks, given by *)
(* their amounts in row order; a selection returns row positions.          *)
(***************************************************************************)
MaxCandidates == 11

Amounts == {5, 9}

AmountTables ==
    { [sheet |-> "amounts", cols |-> {"amount"}, rows |-> r] :
          r \in UNION { [1..n -> Amounts] : n \in 0..MaxCandidates } }

\* the positions in `left` by non-increasing amount; equal amounts in row
\* order, or in reverse row order
RECURSIVE OrderDescending(_, _, _)
OrderDescending(keys, left, ties) ==
    IF left = {} THEN <<>>
    ELSE LET best == CHOOSE i \in left :
                         \A j \in left :
                             \/ keys[i] > keys[j]
                             \/ keys[i] = keys[j] /\
                                    IF ties = "row order" THEN i <= j ELSE i >= j
         IN  <<best>> \o OrderDescending(keys, left \ {best}, ties)

\* .head(n)
HeadN(seq, n) == SubSeq(seq, 1, IF Len(seq) < n THEN Len(seq) ELSE n)

\* nlargest(n) with the default keep='first'
NLargest(n, keys) == HeadN(OrderDescending(keys, 1..Len(keys), "row order"), n)

\* sort_values(ascending=False).head(n), with the default kind='quicksort'
SortValuesHead(n, keys, ties) == HeadN(OrderDescending(keys, 1..Len(keys), ties), n)

TopCustomersN == 10

TopBusinessPartnersN == 3

TopStockItemsN == 5

CustTopN == 10

TopNView(selection, n, picked) ==
    [page |-> "Top N", selection |-> selection, n |-> n, picked |-> picked]

TopNInit ==
    /\ LoaderAtRest
    /\ df \in AmountTables
    /\ today = 0
    /\ sort_ties \in TieOrders
    /\ view = NoView

\* top_customers / top_creditors of the overdue dashboards
TopCustomers ==
    /\ view' = TopNView("top_customers", TopCustomersN, NLargest(TopCustomersN, df.rows))
    /\ UNCHANGED <<df, today, sort_ties, loaderVars>>

\* top_bp of the order pages
TopBusinessPartners ==
    /\ view' = TopNView("top_bp", TopBusinessPartnersN, NLargest(TopBusinessPartnersN, df.rows))
    /\ UNCHANGED <<df, today, sort_ties, loaderVars>>

\* top_qty and top_val of the Stock Status page
TopStockItems ==
    /\ df.rows # <<>>
    /\ view' = TopNView("top_qty", TopStockItemsN,
                        SortValuesHead(TopStockItemsN, df.rows, sort_ties))
    /\ UNCHANGED <<df, today, sort_ties, loaderVars>>

\* cust_top of the Overdue Sales Orders page
CustTop ==
    /\ df.rows # <<>>
    /\ view' = TopNView("cust_top", CustTopN, SortValuesHead(CustTopN, df.rows, sort_ties))
    /\ UNCHANGED <<df, today, sort_ties, loaderVars>>

TopNNext == TopCustomers \/ TopBusinessPartners \/ TopStockItems \/ CustTop

SpecTopN == TopNInit /\ [][TopNNext]_vars

\* C12: every top-N result has min(N, candidates) entries in non-increasing
\* order of amount, no excluded candidate has a strictly larger amount than
\* an included one, and entries with equal amounts are in their original row
\* order.
C12_TopNStable ==
    view.page = "Top N" =>
        LET keys == df.rows
            p == view.picked
        IN  /\ Len(p) = IF Len(keys) < view.n THEN Len(keys) ELSE view.n
            /\ \A i, j \in 1..Len(p) : i < j =>
                   /\ p[i] # p[j]
                   /\ keys[p[i]] >= keys[p[j]]
                   /\ keys[p[i]] = keys[p[j]] => p[i] < p[j]
            /\ \A e \in 1..Len(keys), i \in 1..Len(p) :
                   (\A j \in 1..Len(p) : p[j] # e) => keys[e] <= keys[p[i]]

(***************************************************************************)
(* Part 5 (specification SpecFormat): format_indian and format_number, the *)
(* formatters every page module defines for itself.  A string is the       *)
(* sequence of its characters; a character outside ASCII is written by its *)
(* code point.  A float is kept in hundredths: Hundredths(h) is h / 100.   *)
(***************************************************************************)
MaxWhole == 12

Hundredths(h) == [t |-> "hundredths", n |-> h]

FormatModules ==
    {"overduepaymentholista", "overduecreditorholista", "salesorderholista", "holistafile"}

\* the rupee sign
RupeeSign == "U+20B9"

\* the text before {formatted} in the f-strings of format_number: the rupee
\* sign and a space; in holistafile.py the literal is the three characters
\* U+00E2 U+201A U+00B9 and a space
CurrencyPrefix(module) ==
    IF module = "holistafile" THEN <<"U+00E2", "U+201A", "U+00B9", " ">>
    ELSE <<RupeeSign, " ">>

DigitChars == <<"0", "1", "2", "3", "4", "5", "6", "7", "8", "9">>

Abs(x) == IF x >= 0 THEN x ELSE -x

\* str(num) of an int num >= 0
RECURSIVE Str(_)
Str(n) == IF n < 10 THEN <<DigitChars[n + 1]>> ELSE Append(Str(n \div 10), DigitChars[(n % 10) + 1])

\* int(num): truncation toward zero
IntOf(h) == IF h >= 0 THEN h \div 100 ELSE -((-h) \div 100)

\* s[-n:]
LastChars(s, n) == IF Len(s) <= n THEN s ELSE SubSeq(s, Len(s) - n + 1, Len(s))

\* s[:-n]
DropChars(s, n) == IF Len(s) <= n THEN <<>> ELSE SubSeq(s, 1, Len(s) - n)

\* while s: result = s[-2:] + ',' + result; s = s[:-2]  (result is `grouped`)
RECURSIVE GroupPairs(_, _)
GroupPairs(s, grouped) ==
    IF s = <<>> THEN grouped
    ELSE GroupPairs(DropChars(s, 2), LastChars(s, 2) \o <<",">> \o grouped)

\* format_indian without the grouping loop
FormatIndian_Ungrouped(num) ==
    IF num.t = "nan" \/ IntOf(num.n) = 0 THEN <<"0">>
    ELSE (IF num.n >= 0 THEN <<>> ELSE <<"-">>) \o Str(Abs(IntOf(num.n)))

FormatIndian(num) ==
    IF num.t = "nan" THEN <<"0">>
    ELSE LET sign == IF num.n >= 0 THEN <<>> ELSE <<"-">>
             n == Abs(IntOf(num.n))
             s == Str(n)
         IN  IF n = 0 THEN <<"0">>
             ELSE IF Len(s) <= 3 THEN sign \o s
             ELSE sign \o GroupPairs(DropChars(s, 3), LastChars(s, 3))

Crore == 10000000

Lakh == 100000

Thousand == 1000

NoSuffix == [suffix |-> <<>>, divisor |-> 1]

\* an abbreviation that starts at one hundred
Abbreviation_FromHundred(absnum) ==
    IF absnum >= 100 * Crore THEN [suffix |-> <<"C", "r">>, divisor |-> Crore]
    ELSE IF absnum >= 100 * Lakh THEN [suffix |-> <<"L">>, divisor |-> Lakh]
    ELSE IF absnum >= 100 * 100 THEN [suffix |-> <<"K">>, divisor |-> Thousand]
    ELSE NoSuffix

\* the if / elif chain on absnum (in hundredths)
Abbreviation(absnum) ==
    IF absnum >= 100 * Crore THEN [suffix |-> <<"C", "r">>, divisor |-> Crore]
    ELSE IF absnum >= 100 * Lakh THEN [suffix |-> <<"L">>, divisor |-> Lakh]
    ELSE IF absnum >= 100 * Thousand THEN [suffix |-> <<"K">>, divisor |-> Thousand]
    ELSE NoSuffix

\* how the float num / divisor lies to the decimal it is nearest to when the
\* exact quotient is halfway between two of them
Halves == {"below", "above"}

\* a ':.2f' that cuts the digits after the second decimal off
RoundHundredths_Truncated(absnum, divisor, half) == absnum \div divisor

\* the hundredths ':.2f' prints for |num / divisor|: the nearest; at a half,
\* the side the float lies on
RoundHundredths(absnum, divisor, half) ==
    LET q == absnum \div divisor
        r == absnum % divisor
    IN  IF 2 * r < divisor THEN q
        ELSE IF 2 * r > divisor THEN q + 1
        ELSE IF half = "above" THEN q + 1 ELSE q

\* f"{val:.2f}" of the value that rounds to q hundredths
Fixed2(negative, q) ==
    (IF negative THEN <<"-">> ELSE <<>>)
        \o Str(q \div 100) \o <<".">>
        \o <<DigitChars[((q % 100) \div 10) + 1], DigitChars[(q % 10) + 1]>>

\* an rstrip that strips nothing
RStrip_Kept(s, ch) == s

\* s.rstrip(ch)
RECURSIVE RStrip(_, _)
RStrip(s, ch) ==
    IF s # <<>> /\ s[Len(s)] = ch THEN RStrip(SubSeq(s, 1, Len(s) - 1), ch) ELSE s

\* a format_number without the pd.isna test of its first lines
FormatNumber_MissingNotTested(module, num, currency, short, half) ==
    (IF currency THEN CurrencyPrefix(module) ELSE <<>>) \o FormatIndian(num)

FormatNumber(module, num, currency, short, half) ==
    IF num.t = "nan" THEN <<"0">>
    ELSE LET absnum == Abs(num.n)
             abbr == Abbreviation(absnum)
             prefix == IF currency THEN CurrencyPrefix(module) ELSE <<>>
         IN  IF short /\ abbr # NoSuffix
             THEN LET q == RoundHundredths(absnum, abbr.divisor, half)
                      formatted_val == RStrip(RStrip(Fixed2(num.n < 0, q), "0"), ".")
                  IN  prefix \o formatted_val \o abbr.suffix
             ELSE prefix \o FormatIndian(num)

\* the amounts around the thresholds and the ones the pages' examples use
Landmarks ==
    {99900, 100000, 100500, 123400, 500000, 1234500, 9999900, 10000000,
     12345600, 123456700, 150000000, 999999900, 1000000000, 1250000000,
     1234567800, 2100000000,
     1, 50, 99, 150, 99950, 99999, 100050, 9999950, 12345678, 999999950}

FormatValues ==
    {100 * n : n \in (-MaxWhole) .. MaxWhole} \cup Landmarks \cup {-h : h \in Landmarks}

FormatInputs == {Hundredths(h) : h \in FormatValues} \cup {NaN}

FormatData == {[sheet |-> "value", cols |-> {}, rows |-> <<v>>] : v \in FormatInputs}

FormatInit ==
    /\ LoaderAtRest
    /\ df \in FormatData
    /\ today = 0
    /\ sort_ties = "row order"
    /\ view = NoView

CallFormatIndian ==
    /\ view' = [page |-> "format_indian", num |-> df.rows[1],
                out |-> FormatIndian(df.rows[1])]
    /\ UNCHANGED <<df, today, sort_ties, loaderVars>>

CallFormatNumber(module, currency, short, half) ==
    /\ view' = [page |-> "format_number", module |-> module, num |-> df.rows[1],
                currency |-> currency, short |-> short, half |-> half,
                out |-> FormatNumber(module, df.rows[1], currency, short, half)]
    /\ UNCHANGED <<df, today, sort_ties, loaderVars>>

FormatNext ==
    \/ CallFormatIndian
    \/ \E module \in FormatModules, currency \in BOOLEAN, short \in BOOLEAN, half \in Halves :
           CallFormatNumber(module, currency, short, half)

SpecFormat == FormatInit /\ [][FormatNext]_vars

IsDigit(c) == \E d \in 1..10 : DigitChars[d] = c

DigitValue(c) == (CHOOSE d \in 1..10 : DigitChars[d] = c) - 1

\* the number a sequence of digits spells
RECURSIVE ParseInt(_)
ParseInt(s) ==
    IF s = <<>> THEN 0
    ELSE 10 * ParseInt(SubSeq(s, 1, Len(s) - 1)) + DigitValue(s[Len(s)])

WithoutCommas(s) == SelectSeq(s, LAMBDA c : c # ",")

\* s without a leading minus sign
Unsigned(s) == IF s # <<>> /\ s[1] = "-" THEN Tail(s) ELSE s

\* the number of decimal digits of n >= 0
RECURSIVE NumDigits(_)
NumDigits(n) == IF n < 10 THEN 1 ELSE 1 + NumDigits(n \div 10)

\* commas stand at the 4th, 7th, 10th, ... place from the right, never first,
\* and every other place holds a digit
IndianGrouped(b) ==
    /\ b # <<>>
    /\ b[1] # ","
    /\ \A i \in 1..Len(b) :
           LET r == Len(b) - i + 1
           IN  IF r >= 4 /\ (r - 4) % 3 = 0 THEN b[i] = "," ELSE IsDigit(b[i])

\* C17: for an integer n, format_indian gives '0' for 0 and otherwise the
\* digits of |n| grouped three at the right and by twos to the left, with a
\* leading '-' exactly when n < 0; without the commas it reads as n.
C17_IndianGrouping ==
    (view.page = "format_indian" /\ view.num.t # "nan" /\ view.num.n % 100 = 0) =>
        LET n == IntOf(view.num.n)
            out == view.out
            b == Unsigned(out)
        IN  /\ n = 0 => out = <<"0">>
            /\ (out[1] = "-") <=> (n < 0)
            /\ IndianGrouped(b)
            /\ Len(WithoutCommas(b)) = NumDigits(Abs(n))
            /\ ParseInt(WithoutCommas(b)) = Abs(n)

\* 1234567 is formatted as 12,34,567
C17_Witness ==
    /\ view.page = "format_indian"
    /\ view.num = Hundredths(123456700)
    /\ view.out = <<"1", "2", ",", "3", "4", ",", "5", "6", "7">>

\* a numeral with at most two decimals, no trailing zero after the point and
\* no trailing point
StrippedNumeral(b) ==
    LET dots == {i \in 1..Len(b) : b[i] = "."}
    IN  /\ b # <<>>
        /\ \A i \in 1..Len(b) : IsDigit(b[i]) \/ b[i] = "."
        /\ Cardinality(dots) <= 1
        /\ \A i \in dots : /\ i > 1
                           /\ Len(b) - i \in {1, 2}
                           /\ b[Len(b)] # "0"

\* the hundredths a numeral spells
NumeralHundredths(b) ==
    LET dots == {i \in 1..Len(b) : b[i] = "."}
    IN  IF dots = {} THEN 100 * ParseInt(b)
        ELSE LET i == CHOOSE j \in dots : TRUE
                 frac == SubSeq(b, i + 1, Len(b))
             IN  100 * ParseInt(SubSeq(b, 1, i - 1))
                     + (IF Len(frac) = 1 THEN 10 * ParseInt(frac) ELSE ParseInt(frac))

\* C18: with abbreviation on and |v| >= 1000 the suffix is Cr from ten million,
\* L from one hundred thousand, K from one thousand; before it stands the
\* quotient by the suffix's divisor to two decimals, trailing zeros and a
\* trailing point removed; 1,500,000 with currency is 'Rs 15L' and 12,500,000
\* is 'Rs 1.25Cr', Rs being the rupee sign.
C18_SuffixByMagnitude ==
    (/\ view.page = "format_number"
     /\ view.short
     /\ view.num.t # "nan"
     /\ Abs(view.num.n) >= 100000) =>
        LET a == Abs(view.num.n)
            suffix == IF a >= 1000000000 THEN <<"C", "r">>
                      ELSE IF a >= 10000000 THEN <<"L">> ELSE <<"K">>
            d == IF a >= 1000000000 THEN 10000000
                 ELSE IF a >= 10000000 THEN 100000 ELSE 1000
            prefix == IF view.currency THEN CurrencyPrefix(view.module) ELSE <<>>
            out == view.out
            signed == SubSeq(out, Len(prefix) + 1, Len(out) - Len(suffix))
            b == Unsigned(signed)
        IN  /\ Len(out) > Len(prefix) + Len(suffix)
            /\ SubSeq(out, 1, Len(prefix)) = prefix
            /\ LastChars(out, Len(suffix)) = suffix
            /\ (signed # b) <=> (view.num.n < 0)
            /\ StrippedNumeral(b)
            /\ LET diff == NumeralHundredths(b) * d - a
               IN  2 * diff <= d /\ 2 * (-diff) <= d
            /\ (view.currency /\ view.module = "overduepaymentholista") =>
                   /\ view.num.n = 150000000 => out = <<RupeeSign, " ", "1", "5", "L">>
                   /\ view.num.n = 1250000000 =>
                          out = <<RupeeSign, " ", "1", ".", "2", "5", "C", "r">>

\* 12,500,000 with currency and abbreviation is the rupee sign, a space, 1.25Cr
C18_Witness ==
    /\ view.page = "format_number"
    /\ view.module = "overduepaymentholista"
    /\ view.short /\ view.currency
    /\ view.num = Hundredths(1250000000)
    /\ view.out = <<RupeeSign, " ", "1", ".", "2", "5", "C", "r">>

\* C19: for 0 <= v < 1000 the abbreviated string is the string without
\* abbreviation, and it has no K, L or Cr in it.
C19_SmallValuesNotAbbreviated ==
    (/\ view.page = "format_number"
     /\ view.short
     /\ view.num.t # "nan"
     /\ view.num.n >= 0 /\ view.num.n < 100000) =>
        /\ view.out = FormatNumber(view.module, view.num, view.currency, FALSE, view.half)
        /\ \A i \in 1..Len(view.out) : view.out[i] \notin {"K", "L", "C", "r"}

\* 999.5 with currency and abbreviation is the rupee sign, a space, 999
C19_Witness ==
    /\ view.page = "format_number"
    /\ view.module = "salesorderholista"
    /\ view.short /\ view.currency
    /\ view.num = Hundredths(99950)
    /\ view.out = <<RupeeSign, " ", "9", "9", "9">>

\* C20: for a value that is not missing, the string with currency is the
\* rupee sign, one space and the string without currency (same abbreviate
\* flag); the sign stands nowhere else, and nowhere without currency.
C20_CurrencyIsRupeePrefix ==
    (view.page = "format_number" /\ view.num.t # "nan") =>
        /\ view.currency =>
               view.out = <<RupeeSign, " ">>
                   \o FormatNumber(view.module, view.num, FALSE, view.short, view.half)
        /\ \A i \in 1..Len(view.out) :
               view.out[i] = RupeeSign => (view.currency /\ i = 1)

\* C21: for a missing value format_indian and format_number return '0',
\* whatever the currency and abbreviate flags.
C21_MissingIsZero ==
    (view.page \in {"format_indian", "format_number"} /\ view.num.t = "nan") =>
        view.out = <<"0">>

\* format_number of a missing value with currency and abbreviation is '0'
C21_Witness ==
    /\ view.page = "format_number"
    /\ view.num = NaN
    /\ view.currency /\ view.short
    /\ view.out = <<"0">>

\* C22: the format_number of every module returns the string this call
\* returned, for the same value and flags.
C22_OneFormatter ==
    view.page = "format_number" =>
        \A m \in FormatModules :
            FormatNumber(m, view.num, view.currency, view.short, view.half) = view.out

\* the number of characters of the suffix the output ends with
SuffixLen ==
    LET out == view.out
    IN  IF Len(out) >= 2 /\ SubSeq(out, Len(out) - 1, Len(out)) = <<"C", "r">> THEN 2
        ELSE IF out # <<>> /\ out[Len(out)] \in {"K", "L"} THEN 1
        ELSE 0

\* the divisor that goes with the suffix the output ends with
ShownDivisor ==
    LET out == view.out
    IN  IF SuffixLen = 2 THEN 10000000
        ELSE IF SuffixLen = 1 /\ out[Len(out)] = "L" THEN 100000
        ELSE IF SuffixLen = 1 THEN 1000
        ELSE 1

\* the numeric part of the output, with its sign: what stands between the
\* currency prefix and the suffix
ShownNumber ==
    LET skip == IF view.currency THEN Len(CurrencyPrefix(view.module)) ELSE 0
    IN  SubSeq(view.out, skip + 1, Len(view.out) - SuffixLen)

Abbreviated == view.page = "format_number" /\ view.short /\ view.num.t # "nan"

\* C23: for |v| >= 1000 the number shown, times the divisor of the suffix
\* shown, is within half a hundredth of the divisor of v, and has v's sign.
C23_WithinRounding ==
    (Abbreviated /\ Abs(view.num.n) >= 100000) =>
        LET shown == NumeralHundredths(Unsigned(ShownNumber))
            diff == shown * ShownDivisor - Abs(view.num.n)
        IN  /\ SuffixLen > 0
            /\ 2 * diff <= ShownDivisor
            /\ 2 * (-diff) <= ShownDivisor
            /\ (ShownNumber[1] = "-") <=> (view.num.n < 0)

\* -99,999.5 is shown as -100K: 100,000 is half a hundredth of 1000 away
C23_Witness ==
    /\ Abbreviated
    /\ view.num = Hundredths(-9999950)
    /\ ShownNumber = <<"-", "1", "0", "0">>
    /\ ShownDivisor = 1000

\* C28: for an integer v with 1,000 <= |v| < 10,000,000 the number shown
\* before K or L is below 100 in magnitude.
C28_ShownBelowHundred ==
    (/\ Abbreviated
     /\ view.num.n % 100 = 0
     /\ Abs(view.num.n) >= 100000
     /\ Abs(view.num.n) < 1000000000) =>
        NumeralHundredths(Unsigned(ShownNumber)) < 10000

(***************************************************************************)
(* Part 6 (specification SpecTabular): read_tabular_from_ftp called on a   *)
(* path, the empty one included, against the server and the download cache.*)
(***************************************************************************)
TabularPaths == {EmptyPath, InventoryPath, AgeingCsvPath}

\* read_tabular_from_ftp(path), and what the caller sees of it
CallReadTabular(path, net) ==
    LET r == ReadTabular(path, secrets, remote, dl_cache, net)
    IN  /\ IF path = EmptyPath
           THEN UNCHANGED <<dl_cache, lastCall, firstOk>>
           ELSE NoteCall(path, r)
        /\ view' = [page |-> "read_tabular", path |-> path, called |-> r.called,
                    session |-> r.session, fetched |-> r.val, decoder |-> r.decoder,
                    exc |-> r.exc, data |-> r.df, before |-> lastCall]
        /\ UNCHANGED <<secrets, remote, load_cache, pc, candidate_paths, k, tried,
                       last_error, raised, transportFailed, result>>
        /\ UNCHANGED <<df, today, sort_ties>>

TabularNext ==
    \/ \E p \in Paths, c \in Contents : ServerReplace(p, c)
    \/ \E path \in TabularPaths, net \in NetOutcomes : CallReadTabular(path, net)

SpecTabular == Init /\ [][TabularNext]_vars

\* C25: read_tabular_from_ftp rejects the empty path before any fetch; for
\* any other path it makes one fetch and, when the fetch returns bytes, hands
\* them to the CSV decoder if the path ends with '.csv' in any letter case and
\* to the spreadsheet decoder otherwise, and to no other.
C25_DecoderByExtension ==
    view.page = "read_tabular" =>
        /\ view.path = EmptyPath =>
               /\ ~view.called /\ ~view.session
               /\ view.exc = PathIsEmpty
               /\ view.decoder = None
               /\ lastCall = view.before
        /\ view.path # EmptyPath =>
               /\ view.called
               /\ lastCall.path = view.path
               /\ view.fetched = None => (view.decoder = None /\ view.exc # NoExc)
               /\ view.fetched # None =>
                      /\ view.decoder = IF Lower(view.path.ext) = "csv"
                                        THEN "pd.read_csv" ELSE "pd.read_excel"
                      /\ lastCall.val = view.fetched
                      /\ view.exc = NoExc => view.data = Table(view.fetched)

\* the bytes of a path spelled .CSV went to the CSV decoder and were decoded
C25_Witness ==
    /\ view.page = "read_tabular"
    /\ view.path = AgeingCsvPath
    /\ view.decoder = "pd.read_csv"
    /\ view.exc = NoExc
    /\ view.data # None

(***************************************************************************)
(* Part 7 (specification SpecScript): one run of pages/holistafile.py from *)
(* the sidebar radio through the page dispatch to the shared section.  The *)
(* environment fixes, for every dataset loader, how a call of it ends.     *)
(***************************************************************************)
RadioOptions ==
    <<"Overdue Sales Orders", "Overdue Payment", "Overdue Creditor", "Purchase Order",
      "Stock Status", "Stock Ageing">>

ScriptLoaders ==
    {"load_sales_data", "load_overdue_payment_data", "load_overdue_creditor_data",
     "load_purchase_data", "load_stock_data", "load_stock_ageing_data"}

\* how a loader call ends: a dataset with rows, a dataset without rows, a
\* dataset lacking a column the page selects, an exception
LoadOutcomes == {"rows", "empty", "malformed", "error"}

ScriptData ==
    { [sheet |-> "script", cols |-> {}, rows |-> <<>>, load |-> f] :
          f \in [ScriptLoaders -> LoadOutcomes] }

\* what a branch of the dispatch leaves behind: the loaders it called, what it
\* put on the page, and where the run is after it
Ran(loaders, shown, at) == [loaders |-> loaders, shown |-> shown, at |-> at]

\* a page body that has no st.stop() at its end
Body_NotStopped(loader, o) ==
    IF o \in {"error", "malformed"} THEN Ran(<<loader>>, "exception", "raised")
    ELSE Ran(<<loader>>, "data", "fall through")

\* a page body on the dataset its loader returned, ending in st.stop()
Body(loader, o) ==
    CASE o = "error" -> Ran(<<loader>>, "exception", "raised")
      [] o = "malformed" -> Ran(<<loader>>, "exception", "raised")
      [] o = "empty" -> Ran(<<loader>>, "empty message", "stopped")
      [] o = "rows" -> Ran(<<loader>>, "data", "stopped")

\* the if / elif chain on page
Branch(page, load) ==
    CASE page = "Overdue Payment" ->
             Body("load_overdue_payment_data", load["load_overdue_payment_data"])
      [] page = "Overdue Creditor" ->
             Body("load_overdue_creditor_data", load["load_overdue_creditor_data"])
      [] page = "Overdue Sales Orders" ->
             Body("load_sales_data", load["load_sales_data"])
      [] page = "Purchase Order" ->
             IF load["load_purchase_data"] = "error"
             THEN Ran(<<"load_purchase_data">>, "exception", "raised")
             ELSE Ran(<<"load_purchase_data">>, "nothing", "fall through")
      [] page = "Stock Status" ->
             Body("load_stock_data", load["load_stock_data"])
      [] page = "Stock Ageing" ->
             IF load["load_stock_ageing_data"] = "error"
             THEN Ran(<<"load_stock_ageing_data">>, "error report", "stopped")
             ELSE IF load["load_stock_ageing_data"] = "malformed"
             THEN Ran(<<"load_stock_ageing_data">>, "exception", "raised")
             ELSE Ran(<<"load_stock_ageing_data">>, "data", "stopped")
      [] OTHER -> Ran(<<>>, "error report", "stopped")

ScriptInit ==
    /\ LoaderAtRest
    /\ df \in ScriptData
    /\ today = 0
    /\ sort_ties = "row order"
    /\ view = NoView

ScriptRunning == view.page = "script" /\ view.at \in {"dispatch", "fall through"}

\* the user picks an option of the radio: the script runs from its top
SelectPage(page) ==
    /\ ~ScriptRunning
    /\ view' = [page |-> "script", selected |-> page, at |-> "dispatch", loaders |-> <<>>,
                shown |-> "nothing", shared |-> FALSE]
    /\ UNCHANGED <<df, today, sort_ties, loaderVars>>

\* the page dispatch
Dispatch ==
    /\ view.page = "script"
    /\ view.at = "dispatch"
    /\ LET b == Branch(view.selected, df.load)
       IN  view' = [view EXCEPT !.loaders = b.loaders, !.shown = b.shown, !.at = b.at]
    /\ UNCHANGED <<df, today, sort_ties, loaderVars>>

\* "3. Sidebar Filters" and what follows it, on the df the dispatch left
SharedSection ==
    /\ view.page = "script"
    /\ view.at = "fall through"
    /\ view' = [view EXCEPT
                   !.shared = TRUE,
                   !.shown = IF df.load["load_purchase_data"] = "malformed"
                             THEN "exception" ELSE "data",
                   !.at = IF df.load["load_purchase_data"] = "malformed"
                          THEN "raised" ELSE "end of script"]
    /\ UNCHANGED <<df, today, sort_ties, loaderVars>>

ScriptNext ==
    \/ \E i \in 1..Len(RadioOptions) : SelectPage(RadioOptions[i])
    \/ Dispatch
    \/ SharedSection

SpecScript == ScriptInit /\ [][ScriptNext]_vars

\* the loader that belongs to each page
OwnLoader(page) ==
    CASE page = "Overdue Sales Orders" -> "load_sales_data"
      [] page = "Overdue Payment" -> "load_overdue_payment_data"
      [] page = "Overdue Creditor" -> "load_overdue_creditor_data"
      [] page = "Purchase Order" -> "load_purchase_data"
      [] page = "Stock Status" -> "load_stock_data"
      [] page = "Stock Ageing" -> "load_stock_ageing_data"

\* C30: the shared section runs only for Purchase Order; for every other
\* selection the run has stopped or ended in an exception once the dispatch
\* is over, whatever its page showed; a run calls no loader but the one of
\* the selected page; a page that is none of the six stops after its error.
C30_SharedSectionOnlyForPurchaseOrder ==
    /\ view.page = "script" =>
           /\ (view.shared \/ view.at \in {"fall through", "end of script"}) =>
                  view.selected = "Purchase Order"
           /\ (view.selected # "Purchase Order" /\ view.at # "dispatch") =>
                  /\ view.at \in {"stopped", "raised"}
                  /\ ~view.shared
           /\ \A i \in 1..Len(view.loaders) : view.loaders[i] = OwnLoader(view.selected)
           /\ Len(view.loaders) <= 1
    /\ \A f \in {df.load} :
           LET b == Branch("none of the six", f)
           IN  b.at = "stopped" /\ b.loaders = <<>> /\ b.shown = "error report"

\* the Stock Ageing page reported its load error and the run stopped there
C30_Witness ==
    /\ view.page = "script"
    /\ view.selected = "Stock Ageing"
    /\ view.shown = "error report"
    /\ view.at = "stopped"
    /\ ~view.shared
    /\ view.loaders = <<"load_stock_ageing_data">>
    /\ df.load["load_purchase_data"] = "rows"

====
